---- MODULE Spec2Model ----
(***************************************************************************)
(* krouter (src/main.go): a reconciler that loads a YAML description of    *)
(* GRE tunnels, static routes and ECMP routes, applies it with `ip`        *)
(* commands, and re-applies it when a write event on the file shows a      *)
(* changed MD5 fingerprint.                                                *)
(*                                                                         *)
(* The model has one process (main, then the watcher goroutine that main   *)
(* blocks on), the configuration file and the fsnotify event queue as the  *)
(* environment, and the kernel's tunnels and routes as the state the `ip`  *)
(* commands act on.                                                        *)
(***************************************************************************)
EXTENDS Integers, Sequences, FiniteSets, TLC

\* ------------------------------------------------------------------ bounds
\* Most file events that may be waiting in the watcher's queue.
MaxQueue == 1
\* Most commands of one pass that fail for a reason outside the model of the
\* kernel (permissions, a bad address, ...).
MaxFaults == 1

\* ------------------------------------------------------- the desired state
\* The items of the example configuration of src/README.md:18-45.
gre1 ==
  [Name |-> "gre1", LocalIP |-> "192.168.1.1", RemoteIP |-> "10.0.0.1",
   TunnelIP |-> "10.0.0.2", SubnetMask |-> "30"]

gre2 ==
  [Name |-> "gre2", LocalIP |-> "192.168.1.2", RemoteIP |-> "10.0.0.2",
   TunnelIP |-> "10.0.0.3", SubnetMask |-> "30"]

route1 ==
  [Destination |-> "192.168.2.0/24", Gateway |-> "192.168.1.254"]

route2 ==
  [Destination |-> "192.168.3.0/24", Gateway |-> "192.168.1.254"]

ecmp1 ==
  [Route |-> "default", Table |-> "GRE",
   Nexthops |-> << [Dev |-> "gre1", Via |-> "10.0.40.5", Weight |-> 1],
                   [Dev |-> "gre2", Via |-> "10.0.41.5", Weight |-> 1] >>]

\* The zero value of the Config struct: what the global `config` holds before
\* the first load.
Config ==
  [Info |-> FALSE, GRETunnels |-> << >>, StaticRoutes |-> << >>,
   ECMPRoutes |-> << >>]

\* A YAML document as the decoder sees it: the top-level keys that are present,
\* the value of each present key, and whether the text is well formed
\* ("syntax": the parser rejects it).
Doc(keys, info, tunnels, statics, ecmps, err) ==
  [keys |-> keys, Info |-> info, GRETunnels |-> tunnels,
   StaticRoutes |-> statics, ECMPRoutes |-> ecmps, err |-> err]

AllKeys == {"program_settings", "gre_tunnels", "static_routes", "ecmp_routes"}

\* The byte contents the configuration file takes in the model.  The index of
\* a content stands for its bytes: two indexes are two different byte strings.
\*  1  the example configuration, logging off
\*  2  the same document as 1 with other bytes (a comment added)
\*  3  gre2 dropped from the tunnel list; the static_routes and ecmp_routes
\*     sections removed from the file
\*  4  text that is not YAML
\*  5  only program_settings, with info logging on
\*  6  info logging on, no tunnels: the static routes and the ECMP route only
ConfigFiles ==
  << Doc(AllKeys, FALSE, <<gre1, gre2>>, <<route1, route2>>, <<ecmp1>>, "none"),
     Doc(AllKeys, FALSE, <<gre1, gre2>>, <<route1, route2>>, <<ecmp1>>, "none"),
     Doc({"program_settings", "gre_tunnels"}, FALSE, <<gre1>>, << >>, << >>, "none"),
     Doc({}, FALSE, << >>, << >>, << >>, "syntax"),
     Doc({"program_settings"}, TRUE, << >>, << >>, << >>, "none"),
     Doc({"program_settings", "static_routes", "ecmp_routes"}, TRUE, << >>,
         <<route1, route2>>, <<ecmp1>>, "none") >>

Bytes == 1..Len(ConfigFiles)

\* ------------------------------------------------------------ the kernel
\* What the `ip` commands act on: the tunnel interfaces, the routes of the main
\* table by destination, and the multipath routes by (route, table) with the
\* devices of their nexthops.
EmptyKernel == [tunnels |-> {}, routes |-> {}, ecmp |-> {}]

\* The devices named by the nexthops of a `route add` argument list.
NexthopDevs(args) ==
  {args[j + 1] : j \in {k \in 1..(Len(args) - 1) : args[k] = "dev"}}

\* The effect of `ip args` on the kernel: whether it succeeds, and the kernel
\* after it.  A failed command changes nothing.
ip(kernel, args) ==
  CASE args[1] = "tunnel" /\ args[2] = "del" ->
         IF args[3] \in kernel.tunnels
           THEN [ok |-> TRUE,
                 kernel |-> [kernel EXCEPT
                   !.tunnels = @ \ {args[3]},
                   !.ecmp = {e \in @ : args[3] \notin e.devs}]]
           ELSE [ok |-> FALSE, kernel |-> kernel]
    [] args[1] = "tunnel" /\ args[2] = "add" ->
         IF args[3] \notin kernel.tunnels
           THEN [ok |-> TRUE, kernel |-> [kernel EXCEPT !.tunnels = @ \cup {args[3]}]]
           ELSE [ok |-> FALSE, kernel |-> kernel]
    [] args[1] = "addr" ->
         [ok |-> args[5] \in kernel.tunnels, kernel |-> kernel]
    [] args[1] = "link" ->
         [ok |-> args[3] \in kernel.tunnels, kernel |-> kernel]
    [] args[1] = "route" /\ args[4] = "via" ->
         IF args[3] \notin kernel.routes
           THEN [ok |-> TRUE, kernel |-> [kernel EXCEPT !.routes = @ \cup {args[3]}]]
           ELSE [ok |-> FALSE, kernel |-> kernel]
    [] args[1] = "route" /\ args[4] = "proto" ->
         IF /\ \A e \in kernel.ecmp : ~(e.route = args[3] /\ e.table = args[9])
            /\ NexthopDevs(args) \subseteq kernel.tunnels
           THEN [ok |-> TRUE,
                 kernel |-> [kernel EXCEPT !.ecmp = @ \cup
                   {[route |-> args[3], table |-> args[9], devs |-> NexthopDevs(args)]}]]
           ELSE [ok |-> FALSE, kernel |-> kernel]

\* ------------------------------------------------------------- the logger
\* initLogger sets the output of `logger` to a logWriter that holds the same
\* `logger`.  log.Logger.Output takes the logger's mutex and calls the output's
\* Write while holding it; the mutex is not reentrant.  `held` is whether the
\* calling goroutine already holds the mutex.
RECURSIVE logger_Output(_, _)

\* logWriter.Write: with info enabled it logs through l.logger, else it drops
\* the line.
logWriter_Write(l, held) ==
  IF l.infoEnabled THEN logger_Output(l, held) ELSE "returned"

\* log.Logger.Output on the configured logger: "blocked" when the mutex is
\* already held by the caller, else the result of Write under the mutex.
logger_Output(l, held) ==
  IF held THEN "blocked" ELSE logWriter_Write(l, TRUE)

\* logger.Printf / Println / Fatalf up to the point the line is written.
logger_Printf(l) == logger_Output(l, FALSE)

\* ------------------------------------------------------- running commands
\* The state a pass threads through its commands: the kernel, the commands
\* issued so far with their results, how the running function ended ("nil",
\* "err", or "hung" when a log call never returned), and whether
\* setupGRETunnels returned an error.
PassStart(kernel) ==
  [kernel |-> kernel, cmds |-> << >>, ret |-> "nil", tunnelErr |-> FALSE]

\* execCommand: runs the command; `faults` holds the positions, counted over
\* the commands of the pass, at which the command fails for an outside reason.
execCommand(st, command, args, faults) ==
  LET n  == Len(st.cmds) + 1
      r  == ip(st.kernel, args)
      ok == r.ok /\ n \notin faults
  IN  [st EXCEPT
        !.kernel = IF ok THEN r.kernel ELSE @,
        !.cmds = Append(@, [command |-> command, args |-> args, ok |-> ok])]

\* Whether the command issued last returned a nil error.
Succeeded(st) == st.cmds[Len(st.cmds)].ok

\* A log call made at state st of a pass.
Log(st, l) ==
  IF logger_Printf(l) = "blocked" THEN [st EXCEPT !.ret = "hung"] ELSE st

\* The body of setupGRETunnels's loop after `ip link set up` of the tunnel.
tunnelAfterUp(up, l) ==
  IF ~Succeeded(up) THEN [up EXCEPT !.ret = "err"] ELSE Log(up, l)

\* ... after `ip addr add` of the tunnel.
tunnelAfterAddr(addr, tunnel, l, faults) ==
  IF ~Succeeded(addr) THEN [addr EXCEPT !.ret = "err"]
  ELSE tunnelAfterUp(
         execCommand(addr, "ip", <<"link", "set", tunnel.Name, "up">>, faults), l)

\* ... after `ip tunnel add` of the tunnel.
tunnelAfterAdd(add, tunnel, l, faults) ==
  IF ~Succeeded(add) THEN [add EXCEPT !.ret = "err"]
  ELSE tunnelAfterAddr(
         execCommand(add, "ip",
           <<"addr", "add", tunnel.TunnelIP \o "/" \o tunnel.SubnetMask,
             "dev", tunnel.Name>>, faults),
         tunnel, l, faults)

\* ... after `ip tunnel del` of the tunnel: a failed delete is logged, nothing
\* else.
tunnelAfterDel(del, tunnel, l, faults) ==
  IF ~Succeeded(del) /\ Log(del, l).ret = "hung" THEN Log(del, l)
  ELSE tunnelAfterAdd(
         execCommand(del, "ip",
           <<"tunnel", "add", tunnel.Name, "mode", "gre", "local",
             tunnel.LocalIP, "remote", tunnel.RemoteIP>>, faults),
         tunnel, l, faults)

\* The body of setupGRETunnels's loop for one tunnel: ret is "nil" when the
\* tunnel is configured, "err" when the body returns an error.
tunnelBody(st, tunnel, l, faults) ==
  tunnelAfterDel(
    execCommand(st, "ip", <<"tunnel", "del", tunnel.Name>>, faults),
    tunnel, l, faults)

RECURSIVE setupGRETunnels_Continue(_, _, _, _, _)
\* A variant of setupGRETunnels that goes on to the next tunnel after a failed
\* command instead of returning the error.
setupGRETunnels_Continue(st, tunnels, i, l, faults) ==
  IF i > Len(tunnels) THEN [st EXCEPT !.ret = "nil"]
  ELSE LET r == tunnelBody(st, tunnels[i], l, faults)
       IN  IF r.ret = "hung" THEN r
           ELSE setupGRETunnels_Continue(r, tunnels, i + 1, l, faults)

RECURSIVE setupGRETunnels(_, _, _, _, _)
\* setupGRETunnels from the i-th tunnel of the list on.
setupGRETunnels(st, tunnels, i, l, faults) ==
  IF i > Len(tunnels) THEN [st EXCEPT !.ret = "nil"]
  ELSE LET r == tunnelBody(st, tunnels[i], l, faults)
       IN  IF r.ret # "nil" THEN r
           ELSE setupGRETunnels(r, tunnels, i + 1, l, faults)

RECURSIVE setupStaticRoutes(_, _, _, _, _)
\* setupStaticRoutes from the i-th route of the list on: the result of the add
\* is logged, whatever it is.
setupStaticRoutes(st, routes, i, l, faults) ==
  IF i > Len(routes) THEN [st EXCEPT !.ret = "nil"]
  ELSE LET done == Log(execCommand(st, "ip",
                         <<"route", "add", routes[i].Destination,
                           "via", routes[i].Gateway>>, faults), l)
       IN  IF done.ret = "hung" THEN done
           ELSE setupStaticRoutes(done, routes, i + 1, l, faults)

\* strconv.Itoa.
Itoa(n) == ToString(n)

RECURSIVE nexthopArgs(_, _)
\* The nexthop arguments of the nexthops from the j-th on.
nexthopArgs(nexthops, j) ==
  IF j > Len(nexthops) THEN << >>
  ELSE <<"nexthop", "dev", nexthops[j].Dev, "via", nexthops[j].Via,
         "weight", Itoa(nexthops[j].Weight)>> \o nexthopArgs(nexthops, j + 1)

\* A variant of ecmpArgs that leaves out the first nexthop of the route.
ecmpArgs_FirstNexthopDropped(ecmp) ==
  <<"route", "add", ecmp.Route, "proto", "static", "scope", "global",
    "table", ecmp.Table>> \o nexthopArgs(ecmp.Nexthops, 2)

\* The argument list of the route add of one ECMP route.
ecmpArgs(ecmp) ==
  <<"route", "add", ecmp.Route, "proto", "static", "scope", "global",
    "table", ecmp.Table>> \o nexthopArgs(ecmp.Nexthops, 1)

RECURSIVE setupECMPRoutes(_, _, _, _, _)
\* setupECMPRoutes from the i-th ECMP route of the list on.
setupECMPRoutes(st, ecmps, i, l, faults) ==
  IF i > Len(ecmps) THEN [st EXCEPT !.ret = "nil"]
  ELSE LET done == Log(execCommand(st, "ip", ecmpArgs(ecmps[i]), faults), l)
       IN  IF done.ret = "hung" THEN done
           ELSE setupECMPRoutes(done, ecmps, i + 1, l, faults)

\* ------------------------------------------------- fingerprint and loading
\* md5.Sum + hex.EncodeToString of the bytes.  Different byte contents of the
\* model have different digests (collisions are outside the model).
MD5(data) == "md5-" \o ToString(data)

\* getFileMD5: `readOK` is whether ioutil.ReadFile succeeded.
getFileMD5(readOK, data) ==
  IF ~readOK THEN [err |-> TRUE, md5 |-> ""]
  ELSE [err |-> FALSE, md5 |-> MD5(data)]

\* yaml.Unmarshal(data, &config): the decoder writes into the struct it is
\* given.  A key present in the document replaces the field (a list by a fresh
\* list); a key absent from the document leaves the field as it was.  A
\* document the parser rejects leaves the struct untouched.
yaml_Unmarshal(doc, cfg) ==
  IF doc.err = "syntax" THEN [err |-> TRUE, config |-> cfg]
  ELSE [err |-> FALSE,
        config |->
          [Info         |-> IF "program_settings" \in doc.keys
                              THEN doc.Info ELSE cfg.Info,
           GRETunnels   |-> IF "gre_tunnels" \in doc.keys
                              THEN doc.GRETunnels ELSE cfg.GRETunnels,
           StaticRoutes |-> IF "static_routes" \in doc.keys
                              THEN doc.StaticRoutes ELSE cfg.StaticRoutes,
           ECMPRoutes   |-> IF "ecmp_routes" \in doc.keys
                              THEN doc.ECMPRoutes ELSE cfg.ECMPRoutes]]

\* loadConfig into the global config `cfg`.
loadConfig(readOK, data, cfg) ==
  IF ~readOK THEN [err |-> TRUE, config |-> cfg]
  ELSE yaml_Unmarshal(ConfigFiles[data], cfg)

\* A variant of fingerprintDiffers that takes every write event as a change.
fingerprintDiffers_Always(newHash, stored) == TRUE

\* The comparison of the new fingerprint with the stored one.
fingerprintDiffers(newHash, stored) == newHash # stored

\* ----------------------------------------------------------- the passes
\* setupStaticRoutes, then setupECMPRoutes; neither returns an error.
routePhases(st, cfg, l, faults) ==
  LET s == setupStaticRoutes(st, cfg.StaticRoutes, 1, l, faults)
  IN  IF s.ret = "hung" THEN s
      ELSE setupECMPRoutes(s, cfg.ECMPRoutes, 1, l, faults)

\* The watcher goroutine after setupGRETunnels returned t: an error is logged
\* and the route phases run.
watchAfterTunnels(t, cfg, l, faults) ==
  IF t.ret = "hung" THEN t
  ELSE IF t.ret = "err" /\ Log(t, l).ret = "hung"
    THEN [Log(t, l) EXCEPT !.tunnelErr = TRUE]
  ELSE routePhases([t EXCEPT !.tunnelErr = (t.ret = "err")], cfg, l, faults)

\* A variant of watchReconcile that runs the route phases before the tunnel
\* phase.
watchReconcile_RoutesFirst(kernel, cfg, l, faults) ==
  LET e == routePhases(PassStart(kernel), cfg, l, faults)
      t == setupGRETunnels(e, cfg.GRETunnels, 1, l, faults)
  IN  IF e.ret = "hung" THEN e
      ELSE [t EXCEPT !.tunnelErr = (t.ret = "err")]

\* The three phases as the watcher goroutine runs them (src/main.go:180-188).
\* `tunnelErr` records that the tunnel phase returned an error.
watchReconcile(kernel, cfg, l, faults) ==
  watchAfterTunnels(
    setupGRETunnels(PassStart(kernel), cfg.GRETunnels, 1, l, faults),
    cfg, l, faults)

\* main after setupGRETunnels returned t: an error is fatal, else the route
\* phases run.
mainAfterTunnels(t, cfg, l, faults) ==
  IF t.ret # "nil" THEN [t EXCEPT !.tunnelErr = (t.ret = "err")]
  ELSE routePhases(t, cfg, l, faults)

\* The three phases as main runs them (src/main.go:216-226).
mainReconcile(kernel, cfg, l, faults) ==
  mainAfterTunnels(
    setupGRETunnels(PassStart(kernel), cfg.GRETunnels, 1, l, faults),
    cfg, l, faults)

\* A variant of reloadPass without the `continue` after a failed load.
reloadPass_NoContinue(ld, kernel, l, faults) ==
  watchReconcile(kernel, ld.config, l, faults)

\* The watcher goroutine from loadConfig's result on (src/main.go:176-188): a
\* failed load is logged and ends the iteration; else the three phases run.
reloadPass(ld, kernel, l, faults) ==
  IF ld.err THEN Log(PassStart(kernel), l)
  ELSE watchReconcile(kernel, ld.config, l, faults)

\* A variant of mainAfterPass that logs the error of the pass and goes on, as
\* the watcher goroutine does.
mainAfterPass_LogOnly(r, l) ==
  IF r.ret = "hung" \/ (r.ret = "err" /\ logger_Printf(l) = "blocked")
    THEN "deadlock"
  ELSE "fingerprint"

\* Where main is after its pass: a log call that never returns leaves every
\* goroutine asleep and the runtime ends the process ("deadlock"); an error is
\* logged by logger.Fatalf, which exits once the line is written.
mainAfterPass(r, l) ==
  IF r.ret = "hung" THEN "deadlock"
  ELSE IF r.ret = "err"
    THEN (IF logger_Printf(l) = "blocked" THEN "deadlock" ELSE "exited")
  ELSE "fingerprint"

\* Where the watcher goroutine is after a log call or a pass: blocked, or at
\* the end of the body of its loop.
watcherAfter(ret) == IF ret = "hung" THEN "hung" ELSE "done"

\* The number of commands a pass over cfg issues at most.
CmdCount(cfg) ==
  4 * Len(cfg.GRETunnels) + Len(cfg.StaticRoutes) + Len(cfg.ECMPRoutes)

RECURSIVE SetsUpTo(_, _)
\* The subsets of 1..n of at most k elements.
SetsUpTo(n, k) ==
  IF k = 0 THEN {{}}
  ELSE LET S == SetsUpTo(n, k - 1)
       IN  S \cup {F \cup {i} : F \in S, i \in 1..n}

\* The sets of command positions that fail for an outside reason.
FaultSets(cfg) == SetsUpTo(CmdCount(cfg), MaxFaults)

\* ------------------------------------------------------------------ state
VARIABLES
  pc,          \* where the process is: "start", "fingerprint", "watch" (main);
               \* "idle", "reload", "done" (the watcher goroutine: in select,
               \* before loadConfig, at the end of the loop body);
               \* "exited", "deadlock" (process gone); "hung" (the watcher
               \* goroutine blocked in a log call); "stuck" (main blocked in a
               \* log call after the goroutine was started)
  file,        \* the bytes of the configuration file
  events,      \* the file events waiting in watcher.Events
  config,      \* the global config
  currentHash, \* the global currentHash
  logger,      \* the logWriter of the global logger
  kernel,      \* tunnels and routes of the kernel
  cmds,        \* the commands of the pass that is running or has just ended,
               \* in order, with their results
  pass,        \* which pass cmds belongs to: "none", "startup", "watch"
  outcome,     \* how the step of the process that has just run ended
  loadedFrom   \* the bytes the config was last loaded from successfully

vars ==
  <<pc, file, events, config, currentHash, logger, kernel, cmds, pass,
    outcome, loadedFrom>>

NoBytes == 0

Init ==
  /\ pc = "start"
  /\ file \in Bytes
  /\ events = << >>
  /\ config = Config
  /\ currentHash = ""
  /\ logger = [infoEnabled |-> FALSE]
  /\ kernel = EmptyKernel
  /\ cmds = << >>
  /\ pass = "none"
  /\ outcome = "none"
  /\ loadedFrom = NoBytes

\* main up to the end of the startup pass (src/main.go:207-226): load, open the
\* logger, run the three phases.
MainStartup ==
  /\ pc = "start"
  /\ \E readOK \in BOOLEAN, logOK \in BOOLEAN :
       LET ld == loadConfig(readOK, file, config)
           l  == [infoEnabled |-> ld.config.Info]
       IN  /\ config' = ld.config
           /\ IF ld.err \/ ~logOK
                THEN /\ pc' = "exited"
                     /\ outcome' = IF ld.err THEN "loadErr" ELSE "logErr"
                     /\ UNCHANGED <<logger, kernel, cmds, pass>>
                     /\ loadedFrom' = IF ld.err THEN loadedFrom ELSE file
                ELSE \E faults \in FaultSets(ld.config) :
                       LET r == mainReconcile(kernel, ld.config, l, faults)
                       IN  /\ logger' = l
                           /\ kernel' = r.kernel
                           /\ cmds' = r.cmds
                           /\ pass' = "startup"
                           /\ loadedFrom' = file
                           /\ outcome' = IF r.tunnelErr THEN "tunnelErr" ELSE "ok"
                           /\ pc' = mainAfterPass(r, l)
  /\ UNCHANGED <<file, events, currentHash>>

\* main: the initial fingerprint (src/main.go:228-232).
MainFingerprint ==
  /\ pc = "fingerprint"
  /\ \E readOK \in BOOLEAN :
       LET h == getFileMD5(readOK, file)
       IN  IF h.err
             THEN /\ pc' = IF logger_Printf(logger) = "blocked"
                             THEN "deadlock" ELSE "exited"
                  /\ outcome' = "readErr"
                  /\ UNCHANGED currentHash
                  /\ UNCHANGED <<cmds, pass>>
             ELSE /\ currentHash' = h.md5
                  /\ pc' = "watch"
                  /\ outcome' = "none"
                  /\ cmds' = << >>
                  /\ pass' = "none"
  /\ UNCHANGED <<file, events, config, logger, kernel, loadedFrom>>

\* watchConfigFile up to <-done (src/main.go:153-160, 200-204): the watcher is
\* created and the file added to it; from here on events of the file are
\* delivered.  logger.Fatal on a failure: when its log call never returns, the
\* runtime ends the process if no other goroutine can run (NewWatcher failed),
\* and main stays blocked if the watcher's goroutines exist (Add failed).
StartWatch ==
  /\ pc = "watch"
  /\ \E watchOK \in BOOLEAN :
       IF watchOK
         THEN /\ pc' = "idle"
              /\ UNCHANGED outcome
         ELSE /\ pc' \in (IF logger_Printf(logger) = "blocked"
                           THEN {"deadlock", "stuck"} ELSE {"exited"})
              /\ outcome' = "watchErr"
  /\ UNCHANGED <<file, events, config, currentHash, logger, kernel, cmds, pass,
                 loadedFrom>>

\* The watcher delivers events of the file once the file was added to it.
Watching == pc \in {"idle", "reload", "done", "hung"}

Alive == pc \notin {"exited", "deadlock"}

\* The end of the loop body and the select that follows it are one moment for
\* the environment: nothing of the program separates them, so what the
\* environment does is placed before or after both.
BetweenIterations == pc = "done"

\* Environment: something writes the bytes `data` to the file (the same bytes
\* as before or others); a watching watcher gets a write event.
WriteFile(data) ==
  /\ Alive
  /\ ~BetweenIterations
  /\ Watching => Len(events) < MaxQueue
  /\ file' = data
  /\ events' = IF Watching THEN Append(events, "write") ELSE events
  /\ UNCHANGED <<pc, config, currentHash, logger, kernel, cmds, pass, outcome,
                 loadedFrom>>

\* Environment: the attributes of the file change; a watching watcher gets an
\* event without the write operation.  The goroutine drops such an event when
\* it receives it, whatever is queued before or after it, so its place in the
\* queue has no effect: it arrives while the goroutine waits with nothing
\* queued.
TouchFile ==
  /\ pc = "idle"
  /\ events = << >>
  /\ Len(events) < MaxQueue
  /\ events' = Append(events, "chmod")
  /\ UNCHANGED <<pc, file, config, currentHash, logger, kernel, cmds, pass,
                 outcome, loadedFrom>>

\* A variant of AtSelect in which an event is received while the pass of the
\* event before it is still to run, as if every event had a goroutine of its
\* own.
AtSelect_PerEvent == pc \in {"idle", "reload"}

\* The watcher goroutine is in its select (src/main.go:162-163): the one place
\* where it receives from watcher.Events and watcher.Errors.
AtSelect == pc = "idle"

\* A variant of isWrite that takes every event for a write.
isWrite_Any(event) == TRUE

\* event.Op&fsnotify.Write == fsnotify.Write.
isWrite(event) == event = "write"

\* The watcher goroutine receives an event (src/main.go:164-175): a write event
\* has the file fingerprinted and compared with the stored fingerprint, and a
\* differing fingerprint is stored before the configuration is loaded.
HandleEvent ==
  /\ AtSelect
  /\ events # << >>
  /\ events' = Tail(events)
  /\ IF ~isWrite(Head(events))
       THEN /\ outcome' = "ignored"
            /\ pc' = "done"
            /\ UNCHANGED currentHash
       ELSE \E readOK \in BOOLEAN :
              LET h == getFileMD5(readOK, file)
              IN  IF h.err
                    THEN /\ outcome' = "readErr"
                         /\ pc' = watcherAfter(Log(PassStart(kernel), logger).ret)
                         /\ UNCHANGED currentHash
                    ELSE IF fingerprintDiffers(h.md5, currentHash)
                      THEN /\ outcome' = "changed"
                           /\ currentHash' = h.md5
                           /\ pc' = "reload"
                      ELSE /\ outcome' = "unchanged"
                           /\ pc' = "done"
                           /\ UNCHANGED currentHash
  /\ UNCHANGED <<file, config, logger, kernel, cmds, pass, loadedFrom>>

\* The watcher goroutine after a changed fingerprint (src/main.go:176-188):
\* load the configuration and run the three phases.
Reload ==
  /\ pc = "reload"
  /\ \E readOK \in BOOLEAN :
       LET ld == loadConfig(readOK, file, config)
       IN  /\ config' = ld.config
           /\ pass' = "watch"
           /\ loadedFrom' = IF ld.err THEN loadedFrom ELSE file
           /\ \E faults \in (IF ld.err THEN {{}} ELSE FaultSets(ld.config)) :
                LET r == reloadPass(ld, kernel, logger, faults)
                IN  /\ outcome' = IF ld.err THEN "loadErr"
                                  ELSE IF r.tunnelErr THEN "tunnelErr"
                                  ELSE "ok"
                    /\ kernel' = r.kernel
                    /\ cmds' = r.cmds
                    /\ pc' = watcherAfter(r.ret)
  /\ UNCHANGED <<file, events, currentHash, logger>>

\* The watcher goroutine receives an error of the watcher
\* (src/main.go:191-195) and logs it.  watcher.Errors is unbuffered: the error
\* is sent when the goroutine receives it.
HandleError ==
  /\ AtSelect
  /\ outcome' = "watcherErr"
  /\ pc' = watcherAfter(Log(PassStart(kernel), logger).ret)
  /\ UNCHANGED <<file, events, config, currentHash, logger, kernel, cmds, pass,
                 loadedFrom>>

\* The watcher goroutine goes round its loop, back to the select
\* (src/main.go:162-163).  The record of the iteration that ended is dropped.
LoopBack ==
  /\ pc = "done"
  /\ pc' = "idle"
  /\ cmds' = << >>
  /\ pass' = "none"
  /\ outcome' = "none"
  /\ UNCHANGED <<file, events, config, currentHash, logger, kernel, loadedFrom>>

Next ==
  \/ MainStartup
  \/ MainFingerprint
  \/ StartWatch
  \/ \E data \in Bytes : WriteFile(data)
  \/ TouchFile
  \/ HandleEvent
  \/ HandleError
  \/ Reload
  \/ LoopBack

Spec == Init /\ [][Next]_vars

\* The scheduler runs a goroutine that can run: a step of main or of the
\* watcher goroutine that stays possible is taken.  The select of the watcher
\* goroutine chooses at random among the channels that are ready, so an event
\* that waits is received in the end however many errors the watcher sends.
\* Nothing is assumed of the environment.
FairSpec ==
  /\ Spec
  /\ WF_vars(MainStartup) /\ WF_vars(MainFingerprint) /\ WF_vars(StartWatch)
  /\ SF_vars(HandleEvent) /\ WF_vars(Reload) /\ WF_vars(LoopBack)

\* ------------------------------------------------- reading the commands
\* The phase a command belongs to.
Kind(c) ==
  IF c.args[1] \in {"tunnel", "addr", "link"} THEN "tunnel"
  ELSE IF c.args[4] = "via" THEN "static"
  ELSE "ecmp"

Rank(c) ==
  CASE Kind(c) = "tunnel" -> 1
    [] Kind(c) = "static" -> 2
    [] Kind(c) = "ecmp" -> 3

\* The tunnel a tunnel command is about.
TunnelOf(c) ==
  IF c.args[1] = "addr" THEN c.args[5] ELSE c.args[3]

\* A failed create, address-assign or link-up command.
TunnelFailure(c) ==
  Kind(c) = "tunnel" /\ c.args[2] # "del" /\ ~c.ok

\* ------------------------------------------------------------------- C1
\* C1: in every pass, startup or watch-triggered, every tunnel command comes
\* before every static-route add, and every static-route add before every
\* ECMP-route add.
C1_PhasesInOrder ==
  \A i, j \in DOMAIN cmds : i < j => Rank(cmds[i]) <= Rank(cmds[j])

\* A watch-triggered pass that issued commands of all three phases.
C1_Witness ==
  /\ pass = "watch"
  /\ pc = "done"
  /\ \E i, j, k \in DOMAIN cmds :
       Kind(cmds[i]) = "tunnel" /\ Kind(cmds[j]) = "static" /\ Kind(cmds[k]) = "ecmp"

RouteAdd(c) == Kind(c) \in {"static", "ecmp"}

\* The watcher goroutine takes an event of the queue in this step.
HandlesEvent == pc = "idle" /\ events # << >> /\ events' = Tail(events)

\* The watcher goroutine runs loadConfig and what follows it in this step.
Reloads == pc = "reload" /\ pc' # "reload"

\* ------------------------------------------------------------------- C3
\* C3 as stated: a watch-triggered pass over the same desired state as before,
\* started with every static route and every ECMP route of that state in the
\* kernel, issues no route add.
C3_NoAddWhenPresent ==
  [][ ( /\ Reloads
        /\ outcome' # "loadErr"
        /\ config' = config
        /\ \A i \in DOMAIN config.StaticRoutes :
             config.StaticRoutes[i].Destination \in kernel.routes
        /\ \A i \in DOMAIN config.ECMPRoutes :
             \E e \in kernel.ecmp :
               /\ e.route = config.ECMPRoutes[i].Route
               /\ e.table = config.ECMPRoutes[i].Table )
      => \A i \in DOMAIN cmds' : ~RouteAdd(cmds'[i]) ]_vars

\* ------------------------------------------------------------------- C4
\* C4 as stated: after a watch-triggered pass whose load failed, the stored
\* fingerprint is the one of the bytes the configuration was last loaded from
\* successfully.
C4_FingerprintOfLoaded ==
  (pass = "watch" /\ outcome = "loadErr") => currentHash = MD5(loadedFrom)

\* ------------------------------------------------------------------- C5
\* C5 as stated: when the watcher goroutine handles a write event and reads
\* the file, and the bytes of the file differ from the bytes the configuration
\* was loaded from, it goes on to load and reconcile.
C5_NoMissedChange ==
  [][ ( /\ HandlesEvent
        /\ Head(events) = "write"
        /\ outcome' # "readErr"
        /\ file # loadedFrom )
      => pc' = "reload" ]_vars

\* ------------------------------------------------------------------- C6
\* C6: a write event handled while the fingerprint of the file equals the
\* stored fingerprint ends the iteration at once; neither then nor on the way
\* back to the select is a command issued, and the kernel, the config and the
\* stored fingerprint stay as they are.
C6_UnchangedIsNoOp ==
  [][ /\ ( /\ HandlesEvent
           /\ Head(events) = "write"
           /\ outcome' # "readErr"
           /\ MD5(file) = currentHash )
         => /\ pc' = "done"
            /\ outcome' = "unchanged"
            /\ cmds' = << >>
            /\ UNCHANGED <<kernel, config, currentHash>>
      /\ (pc = "done" /\ outcome = "unchanged")
         => /\ pc' \in {"done", "idle"}
            /\ cmds' = << >>
            /\ UNCHANGED <<kernel, config, currentHash>> ]_vars

\* The iteration of a write event that found the fingerprint unchanged, with
\* tunnels and routes in the kernel.
C6_Witness ==
  /\ pc = "done"
  /\ outcome = "unchanged"
  /\ currentHash = MD5(file)
  /\ kernel.tunnels # {}

\* ------------------------------------------------------------------- C7
\* C7 as stated: after a watch-triggered pass that failed by a load error or
\* by a tunnel failure, every tunnel that existed before the pass exists.
C7_TunnelsKept ==
  [][ (Reloads /\ outcome' \in {"loadErr", "tunnelErr"})
      => kernel.tunnels \subseteq kernel'.tunnels ]_vars

\* A failed `ip tunnel add` of tunnel t among the commands.
FailedCreate(commands, t) ==
  \E i \in DOMAIN commands :
    /\ commands[i].args[1] = "tunnel"
    /\ commands[i].args[2] = "add"
    /\ commands[i].args[3] = t
    /\ ~commands[i].ok

\* C7 as amended: a watch-triggered pass that fails by a load error issues no
\* command and leaves the kernel as it was; one that fails by a tunnel failure
\* leaves in place every tunnel that existed before it except a tunnel whose
\* create command failed in the pass (after its delete).
C7_TunnelsKeptButFailedCreate ==
  [][ /\ (Reloads /\ outcome' = "loadErr")
         => (kernel' = kernel /\ cmds' = << >>)
      /\ (Reloads /\ outcome' = "tunnelErr")
         => \A t \in kernel.tunnels \ kernel'.tunnels : FailedCreate(cmds', t) ]_vars

\* A watch-triggered pass deleted a tunnel and failed to create it again.
C7_Witness ==
  /\ pass = "watch"
  /\ pc = "done"
  /\ outcome = "tunnelErr"
  /\ \E i \in DOMAIN cmds :
       /\ i < Len(cmds)
       /\ cmds[i].args[1] = "tunnel" /\ cmds[i].args[2] = "del" /\ cmds[i].ok
       /\ FailedCreate(cmds, cmds[i].args[3])
       /\ cmds[i].args[3] \notin kernel.tunnels

\* ------------------------------------------------------------------- C8
\* C8 as stated: after a successful load in a watch-triggered pass the tunnels,
\* static routes and ECMP routes of the config are those of the file that was
\* loaded; a section the file does not have is empty.
C8_ConfigIsTheFile ==
  (pass = "watch" /\ outcome \in {"ok", "tunnelErr"}) =>
    /\ config.GRETunnels = ConfigFiles[loadedFrom].GRETunnels
    /\ config.StaticRoutes = ConfigFiles[loadedFrom].StaticRoutes
    /\ config.ECMPRoutes = ConfigFiles[loadedFrom].ECMPRoutes

\* ------------------------------------------------------------------- C9
\* C9: when a create, address-assign or link-up command fails in the startup
\* pass, the process is gone (exited through logger.Fatalf, or ended by the
\* runtime when that log call blocks) and takes no further step: the watcher is
\* never started and no event is handled.
C9_StartupTunnelFailureIsFatal ==
  (pass = "startup" /\ \E i \in DOMAIN cmds : TunnelFailure(cmds[i])) =>
    /\ pc \in {"exited", "deadlock"}
    /\ ~ENABLED Next

\* The startup pass failed to bring up a tunnel it had created, and the
\* process exited.
C9_Witness ==
  /\ pass = "startup"
  /\ pc = "exited"
  /\ \E i \in DOMAIN cmds : TunnelFailure(cmds[i]) /\ cmds[i].args[1] = "link"

\* ------------------------------------------------------------------ C10
\* C10 as stated: after a watch-triggered pass in which the load or the tunnel
\* phase returned an error, the watcher goroutine is at the end of its loop
\* body, about to wait for the next event.
C10_LoopGoesOn ==
  (pass = "watch" /\ outcome \in {"loadErr", "tunnelErr"}) => pc = "done"

\* ------------------------------------------------------------------ C11
\* C11: an event is taken from the queue only while the watcher goroutine
\* waits in its select with no pass under way, after main has loaded the
\* configuration, run the startup pass and stored the initial fingerprint; an
\* event that arrives while a watch-triggered pass is pending or running stays
\* in the queue until the goroutine is back in the select.  config and
\* currentHash are written by main only before the goroutine exists (no event
\* is queued yet), and afterwards only by the goroutine.
C11_OnePassAtATime ==
  [][ /\ (events # << >> /\ events' = Tail(events))
         => /\ pc = "idle"
            /\ pass = "none"
            /\ cmds = << >>
            /\ currentHash # ""
            /\ loadedFrom # NoBytes
      /\ (config' # config \/ currentHash' # currentHash)
         => \/ pc \in {"start", "fingerprint"} /\ events = << >>
            \/ pc \in {"idle", "reload"} ]_vars

\* A write event arrived while the pass of the event before it was still to
\* run.
C11_Witness ==
  /\ pc = "reload"
  /\ events # << >>
  /\ Head(events) = "write"

\* ------------------------------------------------------------------ C12
\* What a tunnel command does: "del", "add", "addr" or "link".
TunnelStep(c) == IF c.args[1] = "tunnel" THEN c.args[2] ELSE c.args[1]

\* The commands have, one right after the other, the delete, the create, the
\* address-assign and the link-up of tunnel t.
Recreated(commands, t) ==
  \E i \in DOMAIN commands :
    /\ i + 3 <= Len(commands)
    /\ \A k \in 0..3 :
         Kind(commands[i + k]) = "tunnel" /\ TunnelOf(commands[i + k]) = t
    /\ <<TunnelStep(commands[i]), TunnelStep(commands[i + 1]),
         TunnelStep(commands[i + 2]), TunnelStep(commands[i + 3])>>
         = <<"del", "add", "addr", "link">>

\* A pass has run over the loaded configuration, and none of its create,
\* address-assign and link-up commands failed.
PassWithoutTunnelFailure ==
  /\ pass # "none"
  /\ outcome # "loadErr"
  /\ \A i \in DOMAIN cmds : ~TunnelFailure(cmds[i])

\* C12 as stated, for a pass in which no create, address-assign or link-up
\* failed: for every tunnel of the configuration the pass issued the delete,
\* then the create, the address-assign and the link-up, whether the tunnel
\* existed (the delete succeeded) or not (the delete failed).
C12_AlwaysRecreated ==
  PassWithoutTunnelFailure =>
    \A m \in DOMAIN config.GRETunnels :
      Recreated(cmds, config.GRETunnels[m].Name)

\* ------------------------------------------------------------------ C13
\* The commands after the i-th have a static-route add for destination d.
StaticAddAfter(commands, i, d) ==
  \E j \in DOMAIN commands :
    j > i /\ Kind(commands[j]) = "static" /\ commands[j].args[3] = d

\* The commands after the i-th have an ECMP-route add for route r.
ECMPAddAfter(commands, i, r) ==
  \E j \in DOMAIN commands :
    j > i /\ Kind(commands[j]) = "ecmp" /\ commands[j].args[3] = r

\* C13 as stated: in every pass, after a failed add of a static route the add
\* of every later static route of the list is issued, a later add that
\* succeeded has its route in the kernel, and the add of every ECMP route of
\* the list is issued.
C13_StaticFailureIsolated ==
  \A i \in DOMAIN cmds :
    (Kind(cmds[i]) = "static" /\ ~cmds[i].ok) =>
      /\ \A m, n \in DOMAIN config.StaticRoutes :
           (config.StaticRoutes[m].Destination = cmds[i].args[3] /\ m < n) =>
             StaticAddAfter(cmds, i, config.StaticRoutes[n].Destination)
      /\ \A j \in DOMAIN cmds :
           (j > i /\ Kind(cmds[j]) = "static" /\ cmds[j].ok) =>
             cmds[j].args[3] \in kernel.routes
      /\ \A e \in DOMAIN config.ECMPRoutes :
           ECMPAddAfter(cmds, i, config.ECMPRoutes[e].Route)

\* ------------------------------------------------------------------ C14
\* The i-th command exists and is step `what` of tunnel t.
IsTunnelStep(commands, i, t, what) ==
  /\ i <= Len(commands)
  /\ Kind(commands[i]) = "tunnel"
  /\ TunnelOf(commands[i]) = t
  /\ TunnelStep(commands[i]) = what

\* C14 as stated: in every pass, startup or watch-triggered, a failed delete
\* of a tunnel is followed by the create of that tunnel, the create when it
\* succeeds by the address-assign, and the address-assign when it succeeds by
\* the link-up: the pass, and at startup the process, does not end at the
\* failed delete.
C14_DeleteFailureNotFatal ==
  \A i \in DOMAIN cmds :
    (Kind(cmds[i]) = "tunnel" /\ TunnelStep(cmds[i]) = "del" /\ ~cmds[i].ok) =>
      LET t == TunnelOf(cmds[i])
      IN  /\ IsTunnelStep(cmds, i + 1, t, "add")
          /\ cmds[i + 1].ok => IsTunnelStep(cmds, i + 2, t, "addr")
          /\ (cmds[i + 1].ok /\ cmds[i + 2].ok)
               => IsTunnelStep(cmds, i + 3, t, "link")

\* ------------------------------------------------------------------ C15
\* C15 as stated: the end of a startup pass in which the add of a static route
\* or of an ECMP route failed, and no create, address-assign or link-up of a
\* tunnel, has main about to compute the initial fingerprint
\* (src/main.go:228): the process is not terminated.
C15_RouteFailureNotFatal ==
  ( /\ pass = "startup"
    /\ outcome = "ok"
    /\ \E i \in DOMAIN cmds : RouteAdd(cmds[i]) /\ ~cmds[i].ok
    /\ \A i \in DOMAIN cmds : ~TunnelFailure(cmds[i]) )
  => pc = "fingerprint"

\* ------------------------------------------------------------------ C16
\* The ECMP-route adds among the commands, in order.
ECMPAdds(commands) == SelectSeq(commands, LAMBDA c : Kind(c) = "ecmp")

\* C16: the pass builds at most one command for an ECMP route of the list, the
\* k-th ECMP command for the k-th route; the command is `ip` with the
\* arguments route add <route> proto static scope global table <table>,
\* followed for every nexthop of the route, in the order of the list and
\* nothing else, by nexthop dev <dev> via <via> weight <weight in decimal>.
C16_ECMPCommand ==
  /\ Len(ECMPAdds(cmds)) <= Len(config.ECMPRoutes)
  /\ \A k \in DOMAIN ECMPAdds(cmds) :
       LET e == config.ECMPRoutes[k]
           c == ECMPAdds(cmds)[k]
       IN  /\ c.command = "ip"
           /\ Len(c.args) = 9 + 7 * Len(e.Nexthops)
           /\ SubSeq(c.args, 1, 9) =
                <<"route", "add", e.Route, "proto", "static", "scope",
                  "global", "table", e.Table>>
           /\ \A n \in DOMAIN e.Nexthops :
                SubSeq(c.args, 9 + 7 * (n - 1) + 1, 9 + 7 * n) =
                  <<"nexthop", "dev", e.Nexthops[n].Dev, "via",
                    e.Nexthops[n].Via, "weight", Itoa(e.Nexthops[n].Weight)>>

\* A watch-triggered pass added an ECMP route of two nexthops.
C16_Witness ==
  /\ pass = "watch"
  /\ pc = "done"
  /\ \E i \in DOMAIN cmds :
       /\ Kind(cmds[i]) = "ecmp"
       /\ cmds[i].ok
       /\ Len(config.ECMPRoutes[1].Nexthops) = 2
       /\ \E e \in kernel.ecmp : e.devs = {"gre1", "gre2"}

\* ------------------------------------------------------------------ C17
\* C17 as stated: once the watcher goroutine has received an error of the
\* watcher, it has logged it and is at the end of its loop body, about to wait
\* for the next event or error.
C17_WatcherErrorLoopGoesOn ==
  outcome = "watcherErr" => pc = "done"

\* ------------------------------------------------------------------ C18
\* The outcomes of the handling of a write event: of the fingerprint check,
\* and of the load and the pass after a changed fingerprint.
WriteOutcomes ==
  {"readErr", "unchanged", "changed", "loadErr", "tunnelErr", "ok"}

\* C18 as stated: under the fairness of FairSpec, a write event at the head of
\* the queue of the waiting goroutine is handled, and after the handling of a
\* write event, whatever its outcome, the goroutine is waiting in its select
\* again.
C18_HandledAndIdleAgain ==
  /\ (pc = "idle" /\ events # << >> /\ Head(events) = "write")
       ~> (Watching /\ outcome \in WriteOutcomes)
  /\ (Watching /\ outcome \in WriteOutcomes) ~> (pc = "idle")

\* ------------------------------------------------------------------ C19
\* C19 as stated: every log call made through the logger as the process
\* configured it returns, so neither main nor the watcher goroutine is ever
\* blocked inside a log call: no pass is hung by logging.
C19_NoPassHungByLogging ==
  pc \notin {"hung", "stuck", "deadlock"}

\* ------------------------------------------------------------------ C20
\* C20: an event without the write operation is received and dropped: no
\* fingerprint is computed or compared, no command is issued, and the kernel,
\* the config and the stored fingerprint stay as they are, then and on the way
\* back to the select.  The goroutine goes from its select to loading the
\* configuration only on a write event.
C20_NonWriteIgnored ==
  [][ /\ (HandlesEvent /\ Head(events) # "write")
         => /\ pc' = "done"
            /\ outcome' = "ignored"
            /\ cmds' = << >>
            /\ UNCHANGED <<kernel, config, currentHash, loadedFrom>>
      /\ (pc = "done" /\ outcome = "ignored")
         => /\ pc' \in {"done", "idle"}
            /\ cmds' = << >>
            /\ UNCHANGED <<kernel, config, currentHash, loadedFrom>>
      /\ (pc = "idle" /\ pc' = "reload")
         => (events # << >> /\ Head(events) = "write") ]_vars

\* An event without the write operation was dropped while the file held bytes
\* other than the fingerprinted ones: a fingerprint check would have found a
\* change.
C20_Witness ==
  /\ pc = "done"
  /\ outcome = "ignored"
  /\ MD5(file) # currentHash
  /\ kernel.tunnels # {}

====
